---- MODULE Spec2Model ----
(***************************************************************************)
(* A model of the nyx Discord bot: the inbound message queue and its       *)
(* single worker (src/nyx.py), the chat-completion / tool-call protocol    *)
(* and the per-conversation rolling window (src/ai_handler.py), and the    *)
(* graph store with its chain reconstruction and semantic search           *)
(* (src/Memory/memory_handler.py).                                         *)
(***************************************************************************)
EXTENDS Integers, Sequences, FiniteSets, TLC

(***************************************************************************)
(* Bounds of the model.                                                    *)
(***************************************************************************)
\* number of inbound message events the chat platform delivers in a run
MaxMsgs == 2
\* number of times get_response may re-enter itself within one turn
MaxDepth == 2

(***************************************************************************)
(* Program constants.                                                      *)
(***************************************************************************)
\* ai_handler.py:118, "if len(context) > 100"
MaxContext == 100
\* memory_handler.py:95, rebuild_conversation_chain(user_id, limit=200)
ChainLimit == 200
\* memory_handler.py:106, maxLevel: 50
MaxLevel == 50

Users == {"u1", "u2"}
Channels == {"c1", "c2"}
\* who writes where: c1 is a guild channel both users write to, c2 is the
\* direct-message channel of u1
Inbound == {[author |-> "u1", channel |-> "c1"], [author |-> "u2", channel |-> "c1"],
            [author |-> "u1", channel |-> "c2"]}
\* the number of the text a user writes in a channel (see Content below)
TextOf(w) == IF w.channel = "c2" THEN 3 ELSE IF w.author = "u1" THEN 1 ELSE 2
\* MemoryHandler.bot_id, the User node merged by __init__
BotId == "bot"
\* Python's None for a platform (discord) message id; real ids are positive
NoId == 0

(***************************************************************************)
(* Values.                                                                 *)
(***************************************************************************)
UserContent(k) == [kind |-> "user", n |-> k]
LlmContent(k) == [kind |-> "llm", n |-> k]
\* ai_handler.py:106
Fallback == [kind |-> "fallback", n |-> 0]
NoContent == [kind |-> "none", n |-> 0]
SystemPrompt == [kind |-> "system", n |-> 0]

\* the platform id channel.send returns for the reply to inbound message k
ResponseId(k) == MaxMsgs + k

NoEvent == [id |-> 0, author |-> "u1", channel |-> "c1", text |-> 1, process |-> FALSE]

(***************************************************************************)
(* The graph store (Neo4j).  msgs: the Message nodes, each with the User   *)
(* that SENT it; replies: the REPLIES_TO edges <<from, to>> between        *)
(* Message ids; users: the discord ids of the User nodes; known: the        *)
(* <<discord id, known_name>> of the User nodes that have a known_name;    *)
(* summaries: the ConversationSummary nodes, each with the User that       *)
(* HAD_CONVERSATION it; part_of: the PART_OF edges <<Message id, summary   *)
(* id>>.                                                                   *)
(***************************************************************************)
EmptyDb == [msgs |-> {}, replies |-> {}, users |-> {BotId}, known |-> {},
            summaries |-> {}, part_of |-> {}]

Message(mid, content, ts, type, discord_id, sender) ==
    [id |-> mid, content |-> content, timestamp |-> ts, type |-> type,
     discord_id |-> discord_id, sender |-> sender]

\* (MATCH (prev:Message), whatever its platform id)
MatchAnyMessage(msgs, did) == msgs

\* MATCH (prev:Message {discord_id: $id}); a null parameter matches no node
MatchByDiscordId(msgs, did) ==
    IF did = NoId THEN {} ELSE {p \in msgs : p.discord_id = did}

store_user_message(d, content, user_id, reply_to_id, discord_msg_id, ts) ==
    LET mid == Cardinality(d.msgs) + 1
        m == Message(mid, content, ts, "user", discord_msg_id, user_id)
        msgs1 == d.msgs \cup {m}
        prevs == MatchByDiscordId(msgs1, reply_to_id)
    IN  [d EXCEPT !.msgs = msgs1,
                  !.replies = d.replies \cup {<<mid, p.id>> : p \in prevs},
                  !.users = d.users \cup {user_id}]

MinId(S) == CHOOSE x \in S : \A y \in S : x <= y

RECURSIVE CreateBotMessages(_, _, _, _, _)
\* one CREATE per matched row (b, prev)
CreateBotMessages(d, prevIds, content, discord_msg_id, ts) ==
    IF prevIds = {} THEN d
    ELSE LET p == MinId(prevIds)
             mid == Cardinality(d.msgs) + 1
             m == Message(mid, content, ts, "bot", discord_msg_id, BotId)
         IN  CreateBotMessages(
                 [d EXCEPT !.msgs = d.msgs \cup {m},
                           !.replies = d.replies \cup {<<mid, p>>}],
                 prevIds \ {p}, content, discord_msg_id, ts)

store_bot_response(d, content, reply_to_msg_id, discord_msg_id, ts) ==
    IF BotId \notin d.users THEN d
    ELSE CreateBotMessages(d,
             {p.id : p \in MatchByDiscordId(d.msgs, reply_to_msg_id)},
             content, discord_msg_id, ts)

\* MATCH (u:User {discord_id: $discord_id}) SET u.known_name = $known_name
update_user_known_name(d, discord_id, known_name) ==
    IF discord_id \notin d.users THEN d
    ELSE [d EXCEPT !.known = {k \in d.known : k[1] # discord_id}
                                 \cup {<<discord_id, known_name>>}]

\* [msg.get("discord_id") for msg in segment.messages]
MessageIds(segment) ==
    [i \in 1..Len(segment.messages) |->
        IF "discord_id" \in DOMAIN segment.messages[i]
        THEN segment.messages[i].discord_id ELSE NoId]

store_conversation_summary(d, user_id, segment) ==
    IF user_id \notin d.users THEN d
    ELSE LET sid == Cardinality(d.summaries) + 1
             x == [id |-> sid, user |-> user_id, topic |-> segment.topic,
                   summary |-> segment.summary, start_time |-> segment.start_time,
                   end_time |-> segment.end_time]
             message_ids == MessageIds(segment)
         IN  [d EXCEPT !.summaries = d.summaries \cup {x},
                       !.part_of = d.part_of \cup
                           {<<m.id, sid>> :
                               m \in UNION {MatchByDiscordId(d.msgs, message_ids[i]) :
                                               i \in DOMAIN message_ids}}]

(***************************************************************************)
(* One session.run: the statement's writing clauses run one after the      *)
(* other inside one auto-commit transaction, and any of them can fail.     *)
(***************************************************************************)
\* the sender of a node whose SENT / HAD_CONVERSATION relationship is not
\* created yet
NoSender == "nobody"

\* the graph after each writing clause of a statement that takes d to f: the
\* User node merged; the new nodes created; their relationship to the User
\* created; their REPLIES_TO / PART_OF relationships created
Clauses(d, f) ==
    LET merged == [d EXCEPT !.users = f.users]
        created == [merged EXCEPT
                      !.msgs = d.msgs \cup
                          {[m EXCEPT !.sender = NoSender] : m \in f.msgs \ d.msgs},
                      !.summaries = d.summaries \cup
                          {[x EXCEPT !.user = NoSender] :
                              x \in f.summaries \ d.summaries}]
        owned == [merged EXCEPT !.msgs = f.msgs, !.summaries = f.summaries]
    IN  <<merged, created, owned, f>>

\* (a store that keeps what the clauses wrote before the failure)
CommitsEachClause(d, clauses, k) == IF k = 0 THEN d ELSE clauses[k]

\* the graph after a statement of which k clauses ran: the transaction commits
\* when all of them did, and is rolled back otherwise
AutoCommit(d, clauses, k) == IF k = Len(clauses) THEN clauses[k] ELSE d

(***************************************************************************)
(* rebuild_conversation_chain: the Cypher query, then the Python loop.     *)
(***************************************************************************)
Min(a, b) == IF a <= b THEN a ELSE b

\* one undirected hop along REPLIES_TO (relationshipFilter 'REPLIES_TO|REPLIES_TO>')
Neighbours(d, S) ==
    {r[2] : r \in {e \in d.replies : e[1] \in S}} \cup
    {r[1] : r \in {e \in d.replies : e[2] \in S}}

RECURSIVE Expand(_, _, _)
\* the end nodes of the paths of at most k hops that start in S
Expand(d, S, k) ==
    IF k = 0 THEN S
    ELSE LET T == S \cup Neighbours(d, S)
         IN  IF T = S THEN S ELSE Expand(d, T, k - 1)

RECURSIVE Orderings(_)
\* the orders a set of rows can come in
Orderings(S) ==
    IF S = {} THEN {<<>>}
    ELSE UNION {{<<m>> \o rest : rest \in Orderings(S \ {m})} : m \in S}

RECURSIVE OrderRange(_, _, _)
\* the ascending orders of the rows with a timestamp in lo..hi
OrderRange(S, lo, hi) ==
    IF lo = hi THEN Orderings({m \in S : m.timestamp = lo})
    ELSE LET mid == (lo + hi) \div 2
         IN  {a \o b : a \in OrderRange(S, lo, mid), b \in OrderRange(S, mid + 1, hi)}

\* ORDER BY message.timestamp ASC: every order of the rows that is ascending
\* in timestamp (the order among equal timestamps is not determined)
OrderByTimestamp(S) ==
    IF S = {} THEN {<<>>}
    ELSE LET ts == {m.timestamp : m \in S}
         IN  OrderRange(S, CHOOSE t \in ts : \A u \in ts : t <= u,
                           CHOOSE t \in ts : \A u \in ts : t >= u)

\* LIMIT $limit
Limit(rows, limit) == SubSeq(rows, 1, Min(Len(rows), limit))

ChainEntry(r) ==
    [content |-> r.content, timestamp |-> r.timestamp,
     role |-> IF r.type = "bot" THEN "assistant" ELSE "user",
     author |-> r.sender]

\* the loop over the result rows: row i is kept when its platform id (msg_id)
\* is not in seen_msgs, that is when no earlier row carries the same one
DedupRows(rows) ==
    LET kept == SelectSeq([i \in 1..Len(rows) |-> i],
                    LAMBDA i : \A j \in 1..(i - 1) :
                                   rows[j].discord_id # rows[i].discord_id)
    IN  [k \in 1..Len(kept) |-> ChainEntry(rows[kept[k]])]

\* the Message nodes the query's DISTINCT last(nodes(path)) yields
ChainNodes(d, user_id) ==
    LET start == {m.id : m \in {x \in d.msgs : x.sender = user_id}}
        reached == Expand(d, start, MaxLevel)
    IN  {m \in d.msgs : m.id \in reached}

\* every result the call can return
rebuild_conversation_chain(d, user_id, limit) ==
    {DedupRows(Limit(rows, limit)) :
        rows \in OrderByTimestamp(ChainNodes(d, user_id))}

(***************************************************************************)
(* search_memories.  Scores are cosine similarities in tenths.             *)
(***************************************************************************)
Text(k) == [kind |-> "text", n |-> k]
\* the texts of the model: "refund policy", "the refund rules", "lunch?" and
\* "here is how refunds work"
RefundPolicy == Text(1)
RefundRules == Text(2)
Lunch == Text(3)
RefundAnswer == Text(4)

\* gds.similarity.cosine of the embeddings (_create_embedding) of two texts
cosine(a, b) ==
    IF a = b THEN 10
    ELSE LET p == {a.n, b.n}
         IN  CASE p = {1, 2} -> 8
               [] p = {1, 3} -> 4
               [] p = {1, 4} -> 6
               [] p = {2, 4} -> 6
               [] OTHER -> 2

\* (a query without its WHERE clause)
IgnoresMinSimilarity(score, min_similarity) == TRUE

\* WHERE score >= $min_similarity
AboveMinSimilarity(score, min_similarity) == score >= min_similarity

\* OPTIONAL MATCH (m)<-[:REPLIES_TO]-(response)<-[:SENT]-(bot {is_bot: true}):
\* the ids of the bot's Messages that reply to m, or one null when there is none
BotResponses(d, m) ==
    LET rs == {b.id : b \in {x \in d.msgs : x.sender = BotId /\ <<x.id, m.id>> \in d.replies}}
    IN  IF rs = {} THEN {NoId} ELSE rs

\* the rows of the query before ORDER BY: one per Message that clears the
\* threshold and response to it
SearchRows(d, query, min_similarity) ==
    UNION {{[msg |-> m, score |-> cosine(query, m.content), response |-> r] :
               r \in BotResponses(d, m)} :
           m \in {x \in d.msgs :
                    AboveMinSimilarity(cosine(query, x.content), min_similarity)}}

\* ORDER BY score DESC: every order of the rows that is descending in score
OrderByScoreDesc(S) ==
    {o \in Orderings(S) :
        \A i \in 1..Len(o) : \A j \in i..Len(o) : o[i].score >= o[j].score}

\* lines 169-175: the dictionary made of a row
MemoryResult(d, r) ==
    [content |-> r.msg.content,
     response |-> IF r.response = NoId THEN NoContent
                  ELSE (CHOOSE b \in d.msgs : b.id = r.response).content,
     timestamp |-> r.msg.timestamp,
     relevance |-> r.score,
     author |-> r.msg.sender]

\* every result the call can return
search_memories(d, query, min_similarity, limit) ==
    {[i \in 1..Len(Limit(rows, limit)) |-> MemoryResult(d, rows[i])] :
        rows \in OrderByScoreDesc(SearchRows(d, query, min_similarity))}

(***************************************************************************)
(* The rolling window (AIHandler.conversation_contexts).                   *)
(***************************************************************************)
Entry(role, content) == [role |-> role, content |-> content]

\* (a _get_context that hands out a new, empty list every time)
ResetContext(contexts, conversation_id) ==
    [c \in DOMAIN contexts \cup {conversation_id} |->
        IF c = conversation_id THEN <<>> ELSE contexts[c]]

get_context(contexts, conversation_id) ==
    IF conversation_id \in DOMAIN contexts THEN contexts
    ELSE contexts @@ (conversation_id :> <<>>)

\* (context.pop(): the newest entry goes)
PopNewest(context) == SubSeq(context, 1, Len(context) - 1)

\* context.pop(0)
PopOldest(context) == Tail(context)

\* the window after context.append(...) and the length check
Appended(context, entry) ==
    LET c == Append(context, entry)
    IN  IF Len(c) > MaxContext THEN PopOldest(c) ELSE c

update_context(contexts, conversation_id, content, role) ==
    LET c == get_context(contexts, conversation_id)
    IN  [c EXCEPT ![conversation_id] = Appended(@, Entry(role, content))]

\* [{"role": msg["role"], "content": msg["content"]} for msg in history]
SeedWindow(history) ==
    [i \in 1..Len(history) |-> Entry(history[i].role, history[i].content)]

build_message_array(context, message) ==
    <<Entry("system", SystemPrompt)>> \o context \o <<Entry("user", message)>>

(***************************************************************************)
(* The chat-completion capability: what one POST can come back with.       *)
(***************************************************************************)
\* _get_available_tools
SupportedTools == {"get_current_time", "search_memories"}
ToolNames == SupportedTools \cup {"bogus_tool"}
ToolCall == [name : ToolNames]
ToolCallLists == UNION {[1..n -> ToolCall] : n \in 1..2}

\* what the environment can make a tool execution throw: nothing; json.loads
\* (line 60) on arguments that are no JSON text; search_memories (line 64) on
\* a store failure or on arguments it does not take
ExecFaults(calls) ==
    {"none"} \cup
    (IF calls # <<>> THEN {"arguments"} ELSE {}) \cup
    (IF \E i \in DOMAIN calls : calls[i].name = "search_memories"
     THEN {"search"} ELSE {})

Bodies ==
    {[kind |-> k, tool_calls |-> <<>>] : k \in {"not_json", "no_choices", "content"}}
    \cup {[kind |-> "tool_calls", tool_calls |-> tc] : tc \in ToolCallLists}

NetworkFailure ==
    [sent |-> FALSE, status |-> "none", body |-> [kind |-> "not_json", tool_calls |-> <<>>]]

Responses ==
    {NetworkFailure} \cup
    {[sent |-> TRUE, status |-> st, body |-> b] : st \in {"ok", "error"}, b \in Bodies}

\* the request failed: transport, HTTP status or unparseable answer
RequestFailed(r) ==
    \/ ~r.sent
    \/ r.status = "error"
    \/ r.body.kind \in {"not_json", "no_choices"}

\* response.json() or ["choices"][0]["message"] raises
ParseRaises(r) == r.body.kind \in {"not_json", "no_choices"}

\* lines 32-41: the initial request raises
InitialRequestRaises(r) == ~r.sent \/ r.status = "error" \/ ParseRaises(r)

\* lines 80-88: the request after tool execution raises
FinalRequestRaises(r) == ~r.sent \/ ParseRaises(r)

(***************************************************************************)
(* Tool execution, lines 57-77.                                            *)
(***************************************************************************)
Unbound == [kind |-> "unbound"]
TimePayload == [kind |-> "current_time"]
SearchPayload == [kind |-> "search_results"]
ErrorPayload == [kind |-> "error"]

ToolCallMessage(calls) ==
    [role |-> "assistant", content |-> NoContent, tool_calls |-> calls]

ToolResult(i, name, result) ==
    [role |-> "tool", content |-> result, tool_call_id |-> i, name |-> name]

\* the value of the local variable result after the if/elif of call i; it keeps
\* its previous value (or stays unbound) for a name that is neither tool
ToolValue(name, result) ==
    IF name = "search_memories" THEN SearchPayload
    ELSE IF name = "get_current_time" THEN TimePayload
    ELSE result

RECURSIVE ExecuteTools(_, _, _, _, _)
\* the for loop over tool_calls; raised names what was thrown, if anything
\* (an unbound result: UnboundLocalError at line 74)
ExecuteTools(calls, i, msgs, result, fault) ==
    IF i > Len(calls) THEN [raised |-> "none", messages |-> msgs]
    ELSE LET c == calls[i]
             value == ToolValue(c.name, result)
         IN  IF fault = "arguments"
                 THEN [raised |-> "arguments", messages |-> msgs]
             ELSE IF c.name = "search_memories" /\ fault = "search"
                 THEN [raised |-> "search", messages |-> msgs]
             ELSE IF value = Unbound
                 THEN [raised |-> "unbound_result", messages |-> msgs]
             ELSE ExecuteTools(calls, i + 1,
                      Append(msgs, ToolResult(i, c.name, value)), value, fault)

(***************************************************************************)
(* Text, as the sequence of its characters, and the name declarations      *)
(* NyxBot._extract_name finds in it.                                       *)
(***************************************************************************)
UpperCase == <<"A", "B", "C", "D", "E", "F", "G", "H", "I", "J", "K", "L", "M",
    "N", "O", "P", "Q", "R", "S", "T", "U", "V", "W", "X", "Y", "Z">>
LowerCase == <<"a", "b", "c", "d", "e", "f", "g", "h", "i", "j", "k", "l", "m",
    "n", "o", "p", "q", "r", "s", "t", "u", "v", "w", "x", "y", "z">>
Letters == {UpperCase[i] : i \in DOMAIN UpperCase} \cup {LowerCase[i] : i \in DOMAIN LowerCase}
Digits == {"0", "1", "2", "3", "4", "5", "6", "7", "8", "9"}
\* what \s matches
Spaces == {" ", "\t", "\n"}

\* (?i): a character compared without regard to case
Lower(c) ==
    IF \E i \in DOMAIN UpperCase : UpperCase[i] = c
    THEN LowerCase[CHOOSE i \in DOMAIN UpperCase : UpperCase[i] = c]
    ELSE c

\* the literal heads of the four patterns, each with its alternatives
name_patterns ==
    <<{<<"m", "y", " ", "n", "a", "m", "e", " ", "i", "s">>},
      {<<"i", "'", "m", " ", "c", "a", "l", "l", "e", "d">>,
       <<"i", "m", " ", "c", "a", "l", "l", "e", "d">>},
      {<<"c", "a", "l", "l", " ", "m", "e">>},
      {<<"i", " ", "g", "o", " ", "b", "y">>}>>

\* the literal lit is in text at position i
StartsWith(text, i, lit) ==
    /\ i + Len(lit) - 1 <= Len(text)
    /\ \A j \in 1..Len(lit) : Lower(text[i + j - 1]) = lit[j]

\* the last position of the longest run of characters of S that starts at
\* position i (i - 1 when there is none)
RunEnd(text, i, S) ==
    LET stops == {j \in i..Len(text) : text[j] \notin S}
    IN  IF stops = {} THEN Len(text)
        ELSE (CHOOSE j \in stops : \A k \in stops : j <= k) - 1

\* (a group of one word only: ([A-Za-z]+))
FirstWordGroup(text, i) ==
    LET ws == RunEnd(text, i, Spaces)
        word == RunEnd(text, ws + 1, Letters)
    IN  [matched |-> ws >= i /\ word >= ws + 1,
         name |-> SubSeq(text, ws + 1, word)]

\* \s+([A-Za-z]+(?:\s+[A-Za-z]+)?) at position i: the spaces, one word, and a
\* second word when spaces and a letter follow the first
NameGroup(text, i) ==
    LET ws == RunEnd(text, i, Spaces)
        word == RunEnd(text, ws + 1, Letters)
        ws2 == RunEnd(text, word + 1, Spaces)
        word2 == RunEnd(text, ws2 + 1, Letters)
        last == IF ws2 >= word + 1 /\ word2 >= ws2 + 1 THEN word2 ELSE word
    IN  [matched |-> ws >= i /\ word >= ws + 1,
         name |-> SubSeq(text, ws + 1, last)]

\* re.search(pattern, content): the match that starts leftmost
search(pattern, text) ==
    LET at(i) == {lit \in pattern :
                     StartsWith(text, i, lit) /\ NameGroup(text, i + Len(lit)).matched}
        starts == {i \in 1..Len(text) : at(i) # {}}
    IN  IF starts = {} THEN [matched |-> FALSE, name |-> <<>>]
        ELSE LET i == CHOOSE j \in starts : \A k \in starts : j <= k
                 lit == CHOOSE l \in at(i) : TRUE
             IN  NameGroup(text, i + Len(lit))

\* line 69: 2 <= len(name) <= 32 and every part of it is alphanumeric
ValidName(name) ==
    /\ 2 <= Len(name)
    /\ Len(name) <= 32
    /\ \A j \in 1..Len(name) : name[j] \in Letters \cup Digits \cup Spaces

\* None
NoName == <<>>

RECURSIVE ExtractFrom(_, _)
\* the loop over the patterns, from pattern p on
ExtractFrom(text, p) ==
    IF p > Len(name_patterns) THEN NoName
    ELSE LET m == search(name_patterns[p], text)
         IN  IF m.matched /\ ValidName(m.name) THEN m.name
             ELSE ExtractFrom(text, p + 1)

extract_name(content) == ExtractFrom(content, 1)

\* what the users of the model write: u1 in c1, u2 in c1, u1 in c2
MyNameIsAlex == <<"m", "y", " ", "n", "a", "m", "e", " ", "i", "s", " ", "A", "l", "e", "x">>
HelloThere == <<"h", "e", "l", "l", "o", " ", "t", "h", "e", "r", "e", ",", " ", "c", "a", "l", "l", " ", "m", "e", " ", "X">>
ImCalledSamLee == <<"I", "'", "m", " ", "c", "a", "l", "l", "e", "d", " ", " ", "S",
    "a", "m", " ", "L", "e", "e", " ", "f", "r", "o", "m", " ", "n",
    "o", "w", " ", "o", "n">>

\* message.content with the bot's mention removed (lines 79-81)
Content(event) == <<MyNameIsAlex, HelloThere, ImCalledSamLee>>[event.text]

(***************************************************************************)
(* src/Memory/conversation_analyzer.py.  A message is a dictionary (a      *)
(* record), a ConversationSegment a record of its five fields.             *)
(***************************************************************************)
\* conversation_analyzer.py:107, "if len(text) < 100"
SummaryMinLength == 100

\* None, for a timestamp and for a summary
NoTime == 0
NoSummary == <<>>

\* msg.get(key), with None for a key the dictionary lacks
Get(msg, key, none) == IF key \in DOMAIN msg THEN msg[key] ELSE none

\* lines 30-48: the messages with content, reduced to content, role and
\* timestamp (the clock's time for one without)
Normalized(messages, clock) ==
    LET kept == SelectSeq(messages, LAMBDA msg : Get(msg, "content", <<>>) # <<>>)
    IN  [i \in 1..Len(kept) |->
            [content |-> kept[i].content,
             role |-> Get(kept[i], "role", "user"),
             timestamp |-> IF Get(kept[i], "timestamp", NoTime) = NoTime THEN clock
                           ELSE kept[i].timestamp]]

\* what \w matches
WordChars == Letters \cup Digits \cup {"_"}

\* TfidfVectorizer's token pattern \b\w\w+\b finds a token in the text
HasToken(text) ==
    \E i \in 1..(Len(text) - 1) : text[i] \in WordChars /\ text[i + 1] \in WordChars

\* line 57, self.vectorizer.fit_transform(docs), raises ValueError ("empty
\* vocabulary") when no document holds a token (the stop-word list can only
\* take further tokens away)
EmptyVocabulary(normalized_messages) ==
    \A i \in DOMAIN normalized_messages : ~HasToken(normalized_messages[i].content)

\* _get_topic_keywords
TopicKeywords(topic) == [kind |-> "keywords", n |-> topic]

ConversationSegment(messages, topic, start_time, end_time) ==
    [messages |-> messages, topic |-> topic, start_time |-> start_time,
     end_time |-> end_time, summary |-> NoSummary]

\* line 24, threshold: float = 0.3, in tenths
Threshold == 3

\* (a shift also at a weight equal to the threshold)
AtLeastThreshold(weight, threshold) == weight >= threshold

\* line 73, np.max(topic_distributions[i]) > threshold
AboveThreshold(weight, threshold) == weight > threshold

RECURSIVE Segmentize(_, _, _, _, _, _, _)
\* lines 68-96: the loop over the normalized messages from message i on, and
\* the final segment.  dist[i] is the topic model's answer for message i: its
\* most likely topic (np.argmax), and that topic's weight (np.max) in tenths
Segmentize(msgs, dist, i, segments, current_segment, current_topic, segment_start) ==
    IF i > Len(msgs)
    THEN IF current_segment # <<>>
         THEN Append(segments,
                  ConversationSegment(current_segment, TopicKeywords(current_topic),
                      segment_start, current_segment[Len(current_segment)].timestamp))
         ELSE segments
    ELSE IF dist[i].topic # current_topic /\ AboveThreshold(dist[i].weight, Threshold)
    THEN Segmentize(msgs, dist, i + 1,
             IF current_segment # <<>>
             THEN Append(segments,
                      ConversationSegment(current_segment,
                          TopicKeywords(current_topic), segment_start,
                          msgs[i - 1].timestamp))
             ELSE segments,
             <<msgs[i]>>, dist[i].topic, msgs[i].timestamp)
    ELSE Segmentize(msgs, dist, i + 1, segments, Append(current_segment, msgs[i]),
                    current_topic, segment_start)

\* detect_topic_shift, given the topic model's answers for the normalized
\* messages
detect_topic_shift(messages, dist, clock) ==
    LET normalized_messages == Normalized(messages, clock)
    IN  IF normalized_messages = <<>> THEN <<>>
        ELSE Segmentize(normalized_messages, dist, 1, <<>>, <<>>, dist[1].topic,
                        normalized_messages[1].timestamp)

\* str(role)
RoleText(role) ==
    IF role = "assistant" THEN <<"a", "s", "s", "i", "s", "t", "a", "n", "t">>
    ELSE <<"u", "s", "e", "r">>

RECURSIVE Join(_, _)
\* " ".join(parts), from part i on
Join(parts, i) ==
    IF i > Len(parts) THEN <<>>
    ELSE IF i = Len(parts) THEN parts[i]
    ELSE parts[i] \o <<" ">> \o Join(parts, i + 1)

\* lines 102-104
SegmentText(segment) ==
    Join([i \in 1..Len(segment.messages) |->
             RoleText(segment.messages[i].role) \o <<":", " ">>
                 \o segment.messages[i].content], 1)

\* (the text as it is)
WholeText(text) == text

\* lines 128-129: text.split('.')[0], and a period
FirstSentence(text) ==
    LET stops == {j \in 1..Len(text) : text[j] = "."}
        first == IF stops = {} THEN Len(text) + 1
                 ELSE CHOOSE j \in stops : \A k \in stops : j <= k
    IN  SubSeq(text, 1, first - 1) \o <<".">>

\* len(text.split()): the words are the runs of characters that are no
\* whitespace
WordCount(text) ==
    Cardinality({i \in 1..Len(text) :
                    /\ text[i] \notin Spaces
                    /\ (i = 1 \/ text[i - 1] \in Spaces)})

Largest(a, b) == IF a >= b THEN a ELSE b

\* (half the word count, unclamped)
HalfLength(input_length) == input_length \div 2

\* line 112
max_length(input_length) == Min(130, Largest(30, input_length \div 2))

\* line 113
min_length(max_len) == Min(30, max_len - 20)

\* lines 111-124: the bounds summarize_segment passes to the capability
SummarizerBounds(text) ==
    LET input_length == WordCount(text)
    IN  [max_length |-> max_length(input_length),
         min_length |-> min_length(max_length(input_length))]

\* what the summarization capability makes of a text
ModelSummary == <<"a", " ", "s", "u", "m", "m", "a", "r", "y">>

\* summarize_segment: the summary it returns and stores in the segment;
\* works says whether the summarization capability answers
summarize_segment(segment, works) ==
    LET text == SegmentText(segment)
    IN  IF Len(text) < SummaryMinLength THEN text
        ELSE IF works THEN ModelSummary
        ELSE FirstSentence(text)

(***************************************************************************)
(* get_last_interaction_time.  A Message node has the properties its       *)
(* CREATE clause sets (memory_handler.py, lines 42-49 and 74-81).          *)
(***************************************************************************)
\* null, for a property a node lacks
NoChannel == "none"

MaxTimestamp(S) == CHOOSE t \in S : \A u \in S : u <= t

\* MATCH (m:Message) WHERE m.channel_id = $channel_id RETURN max(m.timestamp):
\* a comparison with null is not true, and max over no row is null, which the
\* single record carries
get_last_interaction_time(d, channel_id) ==
    LET rows == {m \in d.msgs :
                    /\ Get(m, "channel_id", NoChannel) # NoChannel
                    /\ Get(m, "channel_id", NoChannel) = channel_id}
    IN  IF rows = {} THEN NoTime ELSE MaxTimestamp({m.timestamp : m \in rows})

(***************************************************************************)
(* State.                                                                  *)
(***************************************************************************)
VARIABLES
    message_queue,          \* NyxBot.message_queue (asyncio.Queue)
    delivered,              \* number of on_message events so far
    pc,                     \* where the worker task stands
    cur,                    \* the message the worker is handling
    conversation_contexts,  \* AIHandler.conversation_contexts
    messages,               \* get_response: the local message array
    tool_calls,             \* get_response: the tool calls being executed
    depth,                  \* get_response: number of re-entries in this turn
    response,               \* _handle_message: the local response
    response_msg,           \* _handle_message: the local response_msg (NoId: unbound)
    db,                     \* the graph store
    now,                    \* the store's clock, datetime()
    sent,                   \* what channel.send delivered
    started,                \* history: ids in the order their handling began
    finished,               \* history: ids in the order their handling ended
    failed,                 \* history: a chat-completion request of the turn being handled failed
    raised,                 \* history: what the last tool execution threw
    ctx0,                   \* history: the window when the turn began (after seeding)
    name_updates,           \* history: the update_user_known_name calls of the handling in progress
    ret                     \* what the last direct call of a MemoryHandler method returned

vars == <<message_queue, delivered, pc, cur, conversation_contexts, messages,
          tool_calls, depth, response, response_msg, db, now, sent, started,
          finished, failed, raised, ctx0, name_updates, ret>>

botVars == <<message_queue, delivered, pc, cur, started, finished, name_updates>>
aiVars == <<conversation_contexts, messages, tool_calls, depth, failed, raised,
            ctx0>>
handlerVars == <<response, response_msg, sent>>
storeVars == <<db, now, ret>>

\* no MemoryHandler method has been called directly
NoReturn == [op |-> "none", args |-> <<>>, value |-> <<>>, raised |-> FALSE]

InitFrom(d, t, at) ==
    /\ message_queue = <<>>
    /\ delivered = 0
    /\ pc = at
    /\ cur = NoEvent
    /\ conversation_contexts = [c \in {} |-> <<>>]
    /\ messages = <<>>
    /\ tool_calls = <<>>
    /\ depth = 0
    /\ response = NoContent
    /\ response_msg = NoId
    /\ db = d
    /\ now = t
    /\ sent = <<>>
    /\ started = <<>>
    /\ finished = <<>>
    /\ failed = FALSE
    /\ raised = "none"
    /\ ctx0 = <<>>
    /\ name_updates = <<>>
    /\ ret = NoReturn

\* a first start: the store holds the bot's User node only
Init == InitFrom(EmptyDb, 1, "get")

(***************************************************************************)
(* src/nyx.py: the queue and its worker.                                   *)
(***************************************************************************)
\* on_message: the platform delivers an event, which is put on the queue
on_message ==
    /\ delivered < MaxMsgs
    /\ \E w \in Inbound, p \in BOOLEAN :
          message_queue' = Append(message_queue,
              [id |-> delivered + 1, author |-> w.author, channel |-> w.channel,
               text |-> TextOf(w), process |-> p])
    /\ delivered' = delivered + 1
    /\ UNCHANGED <<pc, cur, started, finished, name_updates>>
    /\ UNCHANGED <<aiVars, handlerVars, storeVars>>

\* (a worker that starts the handler as a task of its own and goes on)
WorkerNeverAwaitsHandler == TRUE

\* the worker is at "await self.message_queue.get()": the handler it awaited
\* has returned or thrown
WorkerAtGet == pc = "get"

\* the item Queue.get hands out
QueueHead(q) == Head(q)

\* (a worker without the except clause: what the handler throws ends it)
StopsOnException(threw) == IF threw THEN "stopped" ELSE "task_done"

\* _process_message_queue, lines 56-61: where the worker goes when the handler
\* it awaited returned or threw an Exception; the except clause catches it,
\* and the finally clause runs either way
AfterHandler(threw) == "task_done"

\* _process_message_queue, line 55; _handle_message starts with fresh locals
queue_get ==
    /\ WorkerAtGet
    /\ message_queue # <<>>
    /\ cur' = QueueHead(message_queue)
    /\ message_queue' = Tail(message_queue)
    /\ started' = Append(started, cur'.id)
    /\ pc' = "should_process"
    /\ response' = NoContent
    /\ response_msg' = NoId
    /\ messages' = <<>>
    /\ tool_calls' = <<>>
    /\ depth' = 0
    /\ failed' = FALSE
    /\ raised' = "none"
    /\ ctx0' = <<>>
    /\ name_updates' = <<>>
    /\ UNCHANGED <<delivered, finished, conversation_contexts, sent>>
    /\ UNCHANGED storeVars

\* _handle_message, lines 74-75
should_process ==
    /\ pc = "should_process"
    /\ pc' = IF cur.process THEN "typing" ELSE AfterHandler(FALSE)
    /\ UNCHANGED <<message_queue, delivered, cur, started, finished, name_updates>>
    /\ UNCHANGED <<aiVars, handlerVars, storeVars>>

\* _handle_message, lines 77-89: entering channel.typing() may throw, which
\* leaves the handler; a declared name is passed to update_user_known_name,
\* and what that call throws is caught (lines 88-89)
typing ==
    /\ pc = "typing"
    /\ \/ /\ pc' = AfterHandler(TRUE)
          /\ UNCHANGED <<db, name_updates>>
       \/ LET declared_name == extract_name(Content(cur))
          IN  /\ pc' = "get_response"
              /\ IF declared_name # NoName
                 THEN \E threw \in BOOLEAN :
                        /\ name_updates' =
                              Append(name_updates, [discord_id |-> cur.author,
                                                    known_name |-> declared_name,
                                                    raised |-> threw])
                        /\ db' = IF threw THEN db
                                 ELSE update_user_known_name(db, cur.author,
                                                             declared_name)
                 ELSE UNCHANGED <<db, name_updates>>
    /\ UNCHANGED <<now, ret>>
    /\ UNCHANGED <<message_queue, delivered, cur, started, finished>>
    /\ UNCHANGED <<aiVars, handlerVars>>

\* _process_message_queue, lines 58-61
task_done ==
    /\ pc = "task_done"
    /\ finished' = Append(finished, cur.id)
    /\ cur' = NoEvent
    /\ pc' = "get"
    /\ name_updates' = <<>>
    /\ UNCHANGED <<message_queue, delivered, started>>
    /\ UNCHANGED <<aiVars, handlerVars, storeVars>>

(***************************************************************************)
(* src/ai_handler.py: get_response, one action per stretch of code between *)
(* two awaits (the worker is the only task that runs this code, and other  *)
(* tasks run only while it is suspended in an await).                      *)
(***************************************************************************)
\* get_response returns value to _handle_message (line 92); its locals die
Return(value) ==
    /\ response' = value
    /\ pc' = "store_user"
    /\ messages' = <<>>
    /\ tool_calls' = <<>>

\* (an except clause that also records the failed exchange in the window)
AppendsAndReturnsFallback ==
    /\ Return(Fallback)
    /\ conversation_contexts' =
          update_context(
              update_context(conversation_contexts, cur.channel,
                             UserContent(cur.id), "user"),
              cur.channel, Fallback, "assistant")
    /\ UNCHANGED depth

\* lines 104-106: the except clause of get_response
ReturnFallback ==
    /\ Return(Fallback)
    /\ UNCHANGED <<conversation_contexts, depth>>

\* lines 26-27, up to the await of the initial request
BuildAndPost(contexts) ==
    /\ messages' = build_message_array(get_context(contexts, cur.channel)[cur.channel],
                                       UserContent(cur.id))
    /\ tool_calls' = <<>>
    /\ pc' = "initial_request"

\* lines 19-27: seed the window on first use, build the message array
get_response_enter ==
    /\ pc = "get_response"
    /\ \/ /\ cur.channel \notin DOMAIN conversation_contexts
          /\ \E history \in rebuild_conversation_chain(db, cur.author, ChainLimit) :
                LET seeded == conversation_contexts @@
                                (cur.channel :> SeedWindow(history))
                IN  /\ conversation_contexts' = seeded
                    /\ ctx0' = seeded[cur.channel]
                    /\ BuildAndPost(seeded)
       \/ \* the store query throws: nothing in get_response catches it
          /\ cur.channel \notin DOMAIN conversation_contexts
          /\ pc' = "task_done"
          /\ UNCHANGED <<conversation_contexts, messages, tool_calls, ctx0>>
       \/ /\ cur.channel \in DOMAIN conversation_contexts
          /\ ctx0' = conversation_contexts[cur.channel]
          /\ BuildAndPost(conversation_contexts)
          /\ UNCHANGED conversation_contexts
    /\ UNCHANGED <<depth, failed, raised>>
    /\ UNCHANGED <<message_queue, delivered, cur, started, finished, name_updates>>
    /\ UNCHANGED <<handlerVars, storeVars>>

\* lines 30-77 and 96-102: the answer to the initial request arrives; with tool
\* calls in it the tools are executed, up to the await of the final request
initial_request ==
    /\ pc = "initial_request"
    /\ \E r \in Responses : \E fault \in ExecFaults(r.body.tool_calls) :
          /\ failed' = (failed \/ RequestFailed(r))
          /\ IF InitialRequestRaises(r)
             THEN ReturnFallback /\ UNCHANGED raised
             ELSE IF r.body.kind = "tool_calls"
             THEN LET done == ExecuteTools(r.body.tool_calls, 1,
                                  Append(messages, ToolCallMessage(r.body.tool_calls)),
                                  Unbound, fault)
                  IN  /\ raised' = done.raised
                      /\ IF done.raised # "none" THEN ReturnFallback
                         ELSE /\ messages' = done.messages
                              /\ tool_calls' = r.body.tool_calls
                              /\ pc' = "final_request"
                              /\ UNCHANGED <<conversation_contexts, depth, response>>
             ELSE /\ conversation_contexts' =
                        update_context(
                            update_context(conversation_contexts, cur.channel,
                                           UserContent(cur.id), "user"),
                            cur.channel, LlmContent(cur.id), "assistant")
                  /\ Return(LlmContent(cur.id))
                  /\ UNCHANGED <<depth, raised>>
    /\ UNCHANGED <<ctx0, response_msg, sent>>
    /\ UNCHANGED <<message_queue, delivered, cur, started, finished, name_updates>>
    /\ UNCHANGED storeVars

\* lines 79-95: the answer to the request after tool execution arrives; with
\* tool calls in it get_response calls itself (line 93), which runs the
\* callee's lines 19-27 up to the await of its initial request
final_request ==
    /\ pc = "final_request"
    /\ \E r \in Responses :
          /\ failed' = (failed \/ RequestFailed(r))
          /\ IF FinalRequestRaises(r) THEN ReturnFallback
             ELSE IF r.body.kind = "tool_calls"
             THEN /\ depth < MaxDepth
                  /\ depth' = depth + 1
                  /\ BuildAndPost(conversation_contexts)
                  /\ UNCHANGED <<conversation_contexts, response>>
             ELSE \* line 95
                  /\ Return(LlmContent(cur.id))
                  /\ UNCHANGED <<conversation_contexts, depth>>
    /\ UNCHANGED <<raised, ctx0, response_msg, sent>>
    /\ UNCHANGED <<message_queue, delivered, cur, started, finished, name_updates>>
    /\ UNCHANGED storeVars

(***************************************************************************)
(* src/nyx.py: _handle_message after the response, lines 98-120.           *)
(***************************************************************************)
\* a discord.Message object is truthy
Truthy(msg) == msg # NoId

\* lines 99-106 (the inbound messages of the model carry no reference, so
\* reply_to_id is None)
store_user ==
    /\ pc = "store_user"
    /\ \/ /\ db' = store_user_message(db, UserContent(cur.id), cur.author, NoId,
                                      cur.id, now)
          /\ now' = now + 1
          /\ pc' = "send"
          /\ UNCHANGED ret
       \/ \* the store throws
          /\ pc' = "except"
          /\ UNCHANGED storeVars
    /\ depth' = 0
    /\ raised' = "none"
    /\ ctx0' = <<>>
    /\ UNCHANGED <<conversation_contexts, messages, tool_calls, failed>>
    /\ UNCHANGED <<message_queue, delivered, cur, started, finished, name_updates>>
    /\ UNCHANGED handlerVars

\* line 109
send ==
    /\ pc = "send"
    /\ \/ /\ sent' = Append(sent, [channel |-> cur.channel, content |-> response,
                                   id |-> ResponseId(cur.id)])
          /\ response_msg' = ResponseId(cur.id)
          /\ pc' = "store_bot"
       \/ \* the platform throws
          /\ pc' = "except"
          /\ UNCHANGED <<sent, response_msg>>
    /\ UNCHANGED response
    /\ UNCHANGED <<message_queue, delivered, cur, started, finished, name_updates>>
    /\ UNCHANGED <<aiVars, storeVars>>

\* lines 110-114
store_bot ==
    /\ pc = "store_bot"
    /\ \/ /\ db' = store_bot_response(db, response, cur.id, response_msg, now)
          /\ now' = now + 1
          /\ pc' = AfterHandler(FALSE)
          /\ UNCHANGED ret
       \/ \* the store throws
          /\ pc' = "except"
          /\ UNCHANGED storeVars
    /\ UNCHANGED <<message_queue, delivered, cur, started, finished, name_updates>>
    /\ UNCHANGED <<aiVars, handlerVars>>

\* lines 116-120: response_msg is read; when line 109 never assigned it the
\* read throws UnboundLocalError, which leaves the handler
handle_except ==
    /\ pc = "except"
    /\ pc' = AfterHandler(response_msg = NoId)
    /\ IF response_msg # NoId /\ ~Truthy(response_msg)
       THEN sent' = Append(sent, [channel |-> cur.channel, content |-> response,
                                  id |-> ResponseId(cur.id)])
       ELSE UNCHANGED sent
    /\ UNCHANGED <<response, response_msg>>
    /\ UNCHANGED <<message_queue, delivered, cur, started, finished, name_updates>>
    /\ UNCHANGED <<aiVars, storeVars>>

Next ==
    \/ on_message
    \/ queue_get
    \/ should_process
    \/ typing
    \/ get_response_enter
    \/ initial_request
    \/ final_request
    \/ store_user
    \/ send
    \/ store_bot
    \/ handle_except
    \/ task_done

Spec == Init /\ [][Next]_vars

\* get_last_interaction_time(channel_id), called by another task of the bot
\* while the worker is suspended in queue.get() or in channel.send()
call_get_last_interaction_time ==
    /\ pc \in {"get", "send"}
    /\ \E channel_id \in Channels :
          ret' = [op |-> "get_last_interaction_time",
                  args |-> [channel_id |-> channel_id],
                  value |-> get_last_interaction_time(db, channel_id),
                  raised |-> FALSE]
    /\ pc' = "queried"
    /\ UNCHANGED <<db, now>>
    /\ UNCHANGED <<message_queue, delivered, cur, started, finished, name_updates>>
    /\ UNCHANGED <<aiVars, handlerVars>>

NextChannel ==
    \/ Next
    \/ call_get_last_interaction_time

SpecChannel == Init /\ [][NextChannel]_vars

\* the worker's steps: all but the platform's deliveries
Worker ==
    \/ queue_get
    \/ should_process
    \/ typing
    \/ get_response_enter
    \/ initial_request
    \/ final_request
    \/ store_user
    \/ send
    \/ store_bot
    \/ handle_except
    \/ task_done

\* the event loop resumes the worker when what it awaits is done, and every
\* call the handler awaits returns or throws
SpecLive == Init /\ [][Next]_vars /\ WF_vars(Worker)

(***************************************************************************)
(* AIHandler on its own, over a store that holds an earlier conversation:  *)
(* get_response is called, by any caller, one call at a time.              *)
(***************************************************************************)
\* number of get_response calls a caller makes in a run
MaxCalls == 2

HistContent(i) == [kind |-> "hist", n |-> i]

\* the store after earlier runs handled messages of u1: the odd Messages are
\* u1's, each even one is the bot's reply to the Message before it
History(n) ==
    [EmptyDb EXCEPT
     !.msgs = {Message(i, HistContent(i), i,
                       IF i % 2 = 1 THEN "user" ELSE "bot", i,
                       IF i % 2 = 1 THEN "u1" ELSE BotId) : i \in 1..n},
     !.replies = {<<i, i - 1>> : i \in {j \in 1..n : j % 2 = 0}},
     !.users = {BotId, "u1"}]

\* the sizes of the earlier conversation: around the window's capacity
SeedSizes == {0, MaxContext - 1, MaxContext, MaxContext + 1}

InitWindow == \E n \in SeedSizes : InitFrom(History(n), n + 1, "caller")

\* nyx.py line 92, for any caller: get_response(user_id, message, conversation_id)
call_get_response ==
    /\ pc = "caller"
    /\ delivered < MaxCalls
    /\ \E w \in Inbound :
          cur' = [id |-> delivered + 1, author |-> w.author, channel |-> w.channel,
                  text |-> TextOf(w), process |-> TRUE]
    /\ delivered' = delivered + 1
    /\ pc' = "get_response"
    /\ response' = NoContent
    /\ failed' = FALSE
    /\ UNCHANGED <<message_queue, started, finished, name_updates,
                   conversation_contexts, messages,
                   tool_calls, depth, raised, ctx0, response_msg, sent>>
    /\ UNCHANGED storeVars

\* the call has returned its result, or thrown, to the caller
get_response_returns ==
    /\ pc \in {"store_user", "task_done"}
    /\ pc' = "caller"
    /\ depth' = 0
    /\ raised' = "none"
    /\ ctx0' = <<>>
    /\ UNCHANGED <<conversation_contexts, messages, tool_calls, failed>>
    /\ UNCHANGED <<message_queue, delivered, cur, started, finished, name_updates>>
    /\ UNCHANGED <<handlerVars, storeVars>>

NextWindow ==
    \/ call_get_response
    \/ get_response_enter
    \/ initial_request
    \/ final_request
    \/ get_response_returns

SpecWindow == InitWindow /\ [][NextWindow]_vars

(***************************************************************************)
(* MemoryHandler on its own: a caller stores messages, one call at a time, *)
(* starting from a store that holds the bot's User node only, and then     *)
(* queries the store (a query leaves the store as it is, so what a query   *)
(* returns after another query is what it returns in its place).           *)
(***************************************************************************)
\* number of Message nodes a run stores
MaxStored == 3

\* the platform ids of the stored Messages that have one
PlatformIds(d) == {m.discord_id : m \in d.msgs} \ {NoId}

\* the id of the Message node a store call creates in d
NewId(d) == Cardinality(d.msgs) + 1

InitStore == InitFrom(EmptyDb, 1, "caller")

\* what a store call that threw leaves with its caller
Raised(op) == [op |-> op, args |-> <<>>, value |-> <<>>, raised |-> TRUE]

\* store_user_message(content, user_id, reply_to_id=..., discord_msg_id=...):
\* the platform id is left out, is one no stored Message has (the clock
\* serves as the source of fresh ones), or is the one of a stored Message
\* (the platform delivered the event again); the reply target is left out or
\* is the platform id of a stored Message
StoreUserMessage(contents) ==
    /\ pc = "caller"
    /\ Cardinality(db.msgs) < MaxStored
    /\ \E user_id \in Users, content \in contents,
          discord_msg_id \in {NoId, now} \cup PlatformIds(db),
          reply_to_id \in {NoId} \cup PlatformIds(db) :
          LET clauses == Clauses(db, store_user_message(db, content, user_id,
                                         reply_to_id, discord_msg_id, now))
          IN  \E k \in 0..Len(clauses) :
                \* no message is a reply to itself
                /\ reply_to_id = NoId \/ reply_to_id # discord_msg_id
                /\ db' = AutoCommit(db, clauses, k)
                /\ IF k = Len(clauses)
                   THEN /\ ret' = [op |-> "store_user_message",
                                   args |-> [user_id |-> user_id,
                                             reply_to_id |-> reply_to_id],
                                   value |-> <<NewId(db)>>, raised |-> FALSE]
                        /\ now' = now + 1
                   ELSE /\ ret' = Raised("store_user_message")
                        /\ now' = now
    /\ UNCHANGED <<botVars, aiVars, handlerVars>>

\* a caller whose messages are about refunds or about lunch
call_store_user_message == StoreUserMessage({RefundRules, Lunch})

\* store_bot_response(content, reply_to_msg_id, discord_msg_id=...); it returns
\* None when no Message carries reply_to_msg_id
call_store_bot_response ==
    /\ pc = "caller"
    /\ Cardinality(db.msgs) < MaxStored
    /\ \E discord_msg_id \in {NoId, now}, reply_to_msg_id \in {NoId} \cup PlatformIds(db) :
          LET clauses == Clauses(db, store_bot_response(db, RefundAnswer,
                                         reply_to_msg_id, discord_msg_id, now))
          IN  \E k \in 0..Len(clauses) :
                /\ db' = AutoCommit(db, clauses, k)
                /\ IF k = Len(clauses)
                   THEN /\ ret' = [op |-> "store_bot_response",
                                   args |-> [reply_to_id |-> reply_to_msg_id],
                                   value |-> IF reply_to_msg_id = NoId THEN <<>>
                                             ELSE <<NewId(db)>>,
                                   raised |-> FALSE]
                        \* the clock is read when a Message is created
                        /\ now' = IF reply_to_msg_id = NoId THEN now ELSE now + 1
                   ELSE /\ ret' = Raised("store_bot_response")
                        /\ now' = now
    /\ UNCHANGED <<botVars, aiVars, handlerVars>>

\* the limits a caller passes: the default 200, and small ones
ChainLimits == {ChainLimit, 1, 2}

\* rebuild_conversation_chain(user_id, limit)
call_rebuild_conversation_chain ==
    /\ pc = "caller"
    /\ \E user_id \in Users, limit \in ChainLimits :
          \E value \in rebuild_conversation_chain(db, user_id, limit) :
              ret' = [op |-> "rebuild_conversation_chain",
                      args |-> [user_id |-> user_id, limit |-> limit],
                      value |-> value, raised |-> FALSE]
    /\ pc' = "queried"
    /\ UNCHANGED <<db, now>>
    /\ UNCHANGED <<message_queue, delivered, cur, started, finished, name_updates>>
    /\ UNCHANGED <<aiVars, handlerVars>>

\* the thresholds a caller passes: the default 0.6, and a stricter one
Thresholds == {6, 9}
\* the limits a caller passes: the default 5, and 1
Limits == {1, 5}

\* search_memories(query, min_similarity, limit)
call_search_memories ==
    /\ pc = "caller"
    /\ \E query \in {RefundPolicy}, min_similarity \in Thresholds, limit \in Limits :
          \E value \in search_memories(db, query, min_similarity, limit) :
              ret' = [op |-> "search_memories",
                      args |-> [query |-> query, min_similarity |-> min_similarity,
                                limit |-> limit],
                      value |-> value, raised |-> FALSE]
    /\ pc' = "queried"
    /\ UNCHANGED <<db, now>>
    /\ UNCHANGED <<message_queue, delivered, cur, started, finished, name_updates>>
    /\ UNCHANGED <<aiVars, handlerVars>>

NextStore ==
    \/ call_store_user_message
    \/ call_store_bot_response
    \/ call_rebuild_conversation_chain
    \/ call_search_memories

SpecStore == InitStore /\ [][NextStore]_vars

(***************************************************************************)
(* The three store calls together: a caller stores messages and summaries  *)
(* of segments it built itself, whose messages carry platform ids.         *)
(***************************************************************************)
\* number of ConversationSummary nodes a run stores
MaxSummaries == 1
\* number of messages in a segment the caller built
MaxCovered == 2

\* a message of a caller's segment: a dictionary with the platform id did, or
\* without one
SegmentMessage(did) ==
    IF did = NoId THEN [content |-> Lunch, role |-> "user", timestamp |-> 1]
    ELSE [content |-> Lunch, role |-> "user", timestamp |-> 1, discord_id |-> did]

\* a caller whose messages are all about lunch
call_store_lunch_message == StoreUserMessage({Lunch})

\* store_conversation_summary(user_id, segment): the segment's messages carry
\* the platform ids of stored Messages, one no stored Message has, or none
call_store_conversation_summary ==
    /\ pc = "caller"
    /\ Cardinality(db.summaries) < MaxSummaries
    /\ \E user_id \in Users, n \in 0..MaxCovered :
          \E ids \in [1..n -> {NoId, now} \cup PlatformIds(db)] :
              LET segment == ConversationSegment(
                                 [i \in 1..n |-> SegmentMessage(ids[i])],
                                 TopicKeywords(1), 1, 1)
                  clauses == Clauses(db, store_conversation_summary(db, user_id,
                                                                    segment))
              IN  \E k \in 0..Len(clauses) :
                    /\ db' = AutoCommit(db, clauses, k)
                    /\ ret' = IF k = Len(clauses)
                              THEN [op |-> "store_conversation_summary",
                                    args |-> [user_id |-> user_id,
                                              message_ids |->
                                                  {ids[i] : i \in 1..n}],
                                    value |-> <<>>, raised |-> FALSE]
                              ELSE Raised("store_conversation_summary")
    /\ UNCHANGED now
    /\ UNCHANGED <<botVars, aiVars, handlerVars>>

NextAtomic ==
    \/ call_store_lunch_message
    \/ call_store_bot_response
    \/ call_store_conversation_summary

SpecAtomic == InitStore /\ [][NextAtomic]_vars

(***************************************************************************)
(* ConversationAnalyzer and store_conversation_summary: a caller segments  *)
(* a conversation, may summarize a segment, and stores a segment, over a   *)
(* store that holds one message of u1 and the bot's reply to it.           *)
(***************************************************************************)
\* number of messages a caller passes to detect_topic_shift
MaxInput == 3

\* head, filled with "x" up to n characters
Filled(head, n) == head \o [i \in 1..(n - Len(head)) |-> "x"]

RefundsTakeFiveDays == <<"R", "e", "f", "u", "n", "d", "s", " ", "t", "a", "k", "e", " ",
    "f", "i", "v", "e", " ", "d", "a", "y", "s", ".", " ">>

\* the messages a caller has: the two stored ones, with their platform ids;
\* one that is not stored; one without timestamp and platform id; one without
\* content; one without a word.  "assistant: " and 88 characters make a text of 99, "user: " and
\* 94 characters one of 100
Pool ==
    {[content |-> <<"H", "i", ".", " ", "B", "y", "e">>, role |-> "user",
      timestamp |-> 1, discord_id |-> 1],
     [content |-> Filled(RefundsTakeFiveDays, 88), role |-> "assistant",
      timestamp |-> 2, discord_id |-> 2],
     [content |-> Filled(RefundsTakeFiveDays, 94), role |-> "user",
      timestamp |-> 5, discord_id |-> 5],
     [content |-> Filled(<<>>, 94), role |-> "user"],
     [content |-> <<>>, role |-> "user", timestamp |-> 6, discord_id |-> 6],
     [content |-> <<"?">>, role |-> "user", timestamp |-> 7, discord_id |-> 7]}

\* the topic model's possible answers for one message
\* (the largest of five weights is at least 0.2)
TopicAnswers == [topic : {1, 2}, weight : {2, 3, 4}]

InitAnalyzer == InitFrom(History(2), 3, "caller")

\* detect_topic_shift(messages)
call_detect_topic_shift ==
    /\ pc = "caller"
    /\ \E n \in 0..MaxInput : \E inputs \in [1..n -> Pool] :
          LET normalized_messages == Normalized(inputs, now)
          IN  IF normalized_messages # <<>> /\ EmptyVocabulary(normalized_messages)
              THEN ret' = [op |-> "detect_topic_shift", inputs |-> inputs,
                           args |-> [dist |-> <<>>], value |-> <<>>,
                           raised |-> TRUE]
              ELSE \E dist \in [1..Len(normalized_messages) -> TopicAnswers] :
                     ret' = [op |-> "detect_topic_shift", inputs |-> inputs,
                             args |-> [dist |-> dist],
                             value |-> detect_topic_shift(inputs, dist, now),
                             raised |-> FALSE]
    /\ pc' = "segmented"
    /\ UNCHANGED <<db, now>>
    /\ UNCHANGED <<message_queue, delivered, cur, started, finished, name_updates>>
    /\ UNCHANGED <<aiVars, handlerVars>>

\* summarize_segment(segment), for one of the segments; the segment object
\* is the caller's, with its summary set by the call
call_summarize_segment ==
    /\ pc = "segmented"
    /\ \E i \in DOMAIN ret.value, works \in BOOLEAN :
          LET summary == summarize_segment(ret.value[i], works)
          IN  ret' = [op |-> "summarize_segment", inputs |-> ret.inputs,
                      args |-> [segment |-> ret.value[i], works |-> works],
                      value |-> summary,
                      segment |-> [ret.value[i] EXCEPT !.summary = summary],
                      raised |-> FALSE]
    /\ pc' = "summarized"
    /\ UNCHANGED <<db, now>>
    /\ UNCHANGED <<message_queue, delivered, cur, started, finished, name_updates>>
    /\ UNCHANGED <<aiVars, handlerVars>>

\* the segments the caller holds
HeldSegments ==
    IF pc = "segmented" THEN {ret.value[i] : i \in DOMAIN ret.value}
    ELSE IF pc = "summarized" THEN {ret.segment}
    ELSE {}

\* store_conversation_summary(user_id, segment), for a segment that
\* detect_topic_shift returned
call_store_detected_segment ==
    /\ pc \in {"segmented", "summarized"}
    /\ \E user_id \in Users, segment \in HeldSegments :
          LET clauses == Clauses(db, store_conversation_summary(db, user_id, segment))
          IN  \E k \in 0..Len(clauses) :
                /\ db' = AutoCommit(db, clauses, k)
                /\ ret' = IF k = Len(clauses)
                          THEN [op |-> "store_conversation_summary",
                                inputs |-> ret.inputs,
                                args |-> [user_id |-> user_id, segment |-> segment],
                                value |-> <<>>, raised |-> FALSE]
                          ELSE Raised("store_conversation_summary")
    /\ pc' = "stored"
    /\ UNCHANGED now
    /\ UNCHANGED <<message_queue, delivered, cur, started, finished, name_updates>>
    /\ UNCHANGED <<aiVars, handlerVars>>

(***************************************************************************)
(* summarize_segment on long texts: a caller summarizes a segment of one   *)
(* message of any number of words.                                         *)
(***************************************************************************)
\* number of words in the message
MaxWords == 300

\* a content of n words, the last one long enough for 94 characters in all
Words(n) ==
    Filled([i \in 1..(2 * (n - 1)) |-> IF i % 2 = 1 THEN "w" ELSE " "],
           Largest(2 * n - 1, 94))

\* summarize_segment(segment) up to the call of the capability (line 118)
call_summarizer ==
    /\ pc = "caller"
    /\ \E n \in 1..MaxWords :
          LET segment == ConversationSegment(
                             <<[content |-> Words(n), role |-> "user",
                                timestamp |-> 1]>>, TopicKeywords(1), 1, 1)
              text == SegmentText(segment)
          IN  /\ Len(text) >= SummaryMinLength
              /\ ret' = [op |-> "summarizer",
                         args |-> [length |-> Len(text),
                                   input_length |-> WordCount(text)],
                         value |-> SummarizerBounds(text), raised |-> FALSE]
    /\ pc' = "summarizer"
    /\ UNCHANGED <<db, now>>
    /\ UNCHANGED <<message_queue, delivered, cur, started, finished, name_updates>>
    /\ UNCHANGED <<aiVars, handlerVars>>

SpecSummarizer == InitAnalyzer /\ [][call_summarizer]_vars

NextAnalyzer ==
    \/ call_detect_topic_shift
    \/ call_summarize_segment
    \/ call_store_detected_segment

SpecAnalyzer == InitAnalyzer /\ [][NextAnalyzer]_vars

(***************************************************************************)
(* The claims checked under Spec.                                          *)
(***************************************************************************)
\* get_response has returned to _handle_message and nothing else ran since
Done == pc = "store_user"
\* a chat-completion request of the turn is being awaited
Requesting == pc \in {"initial_request", "final_request"}

\* the bound a configuration would set on the cycles of one turn: any value
\* below the depth the model lets a turn reach
MaxTurns == MaxDepth - 1

\* C1: a turn is Done, with the fallback message, once it has gone through
\* more than the configured maximum number of Requesting/Executing cycles
C1_TurnEndsWithinBound ==
    depth > MaxTurns => (Done /\ response = Fallback)

\* C6: messages are handled in the order they were enqueued (ids are given in
\* arrival order), one at a time: a handling starts only after every earlier
\* one has finished, and the worker is away from the queue exactly while one
\* handling is in progress
C6_SerialFifo ==
    /\ \A i \in 1..Len(started) : started[i] = i
    /\ \A i \in 1..Len(finished) : finished[i] = i
    /\ Len(finished) <= Len(started)
    /\ Len(started) <= Len(finished) + 1
    /\ (Len(started) = Len(finished) + 1) <=> (pc # "get")
    /\ Len(started) + Len(message_queue) = delivered

\* C6, its case: the second message waits in the queue while the handling of
\* the first is suspended in a chat-completion request
C6_Witness ==
    /\ pc = "final_request"
    /\ started = <<1>>
    /\ Len(message_queue) = 1

\* C7: a turn that is Done with assistant content has appended the user message
\* and then the assistant content, once each, to its conversation's window
C7_DoneAppendsBoth ==
    (Done /\ response # Fallback) =>
        conversation_contexts[cur.channel] =
            Appended(Appended(ctx0, Entry("user", UserContent(cur.id))),
                     Entry("assistant", response))

\* C8: once a chat-completion request of the turn has failed, the turn is over
\* with the fallback string as its result and no request is awaited any more
C8_FailureEndsTurn ==
    failed => (~Requesting /\ pc # "get_response" /\ response = Fallback)

\* C9: when the chat completion failed and the orchestrator returned the
\* fallback, the store holds no bot Message in reply to the inbound message
C9_NoBotMessageAfterFailure ==
    (failed /\ response = Fallback) =>
        ~\E m \in db.msgs : m.type = "bot" /\ m.discord_id = ResponseId(cur.id)

\* C10: a requested tool outside the supported set does not make the tool
\* execution throw, and the message array of the next request holds, for that
\* call, a tool result with an error payload
C10_UnknownToolGetsErrorPayload ==
    /\ raised # "unbound_result"
    /\ pc = "final_request" =>
          \A i \in DOMAIN tool_calls :
              tool_calls[i].name \notin SupportedTools =>
                  messages[Len(messages) - Len(tool_calls) + i].content = ErrorPayload

\* C14: every bot Message of the store has one REPLIES_TO edge, and it leads to
\* the user Message stored for the inbound message the bot Message answers
\* (the one whose handling sent it)
C14_BotMessageRepliesToItsTrigger ==
    \A b \in {m \in db.msgs : m.type = "bot"} :
        \E t \in db.msgs :
            /\ {e \in db.replies : e[1] = b.id} = {<<b.id, t.id>>}
            /\ t.type = "user"
            /\ ResponseId(t.discord_id) = b.discord_id
            /\ t.content = UserContent(t.discord_id)

\* C14, its case: two inbound messages were handled and the store holds a bot
\* Message for each
C14_Witness ==
    /\ Cardinality({m \in db.msgs : m.type = "bot"}) = 2
    /\ Len(finished) = 2

\* _handle_message is past its name declaration check (lines 83-89)
PastNameCheck ==
    pc \in {"get_response", "initial_request", "final_request", "store_user",
            "send", "store_bot", "except"}

\* the calls the handling of a message with text number t by user u makes:
\* one for "my name is Alex" and for "I'm called  Sam Lee from now on", none
\* for "hello there, call me X" (a name of one letter is none)
ExpectedUpdates(t, u) ==
    IF t = 1 THEN {<<u, <<"A", "l", "e", "x">>>>}
    ELSE IF t = 3 THEN {<<u, <<"S", "a", "m", " ", "L", "e", "e">>>>}
    ELSE {}

\* C15: the handling of a processed message that declares a name calls
\* update_user_known_name once, with the sender's id and the declared name, and
\* the handling of one that declares none does not call it
C15_NameDeclarationUpdatesOnce ==
    /\ Len(name_updates) <= 1
    /\ ~PastNameCheck /\ pc # "task_done" => name_updates = <<>>
    /\ PastNameCheck =>
          /\ {<<name_updates[i].discord_id, name_updates[i].known_name>> :
                 i \in 1..Len(name_updates)} = ExpectedUpdates(cur.text, cur.author)
          /\ Len(name_updates) = Cardinality(ExpectedUpdates(cur.text, cur.author))

\* C15, its case: the handling of "I'm called  Sam Lee from now on" has called
\* update_user_known_name and gone on to the response
C15_Witness ==
    /\ pc = "send"
    /\ cur.text = 3
    /\ name_updates # <<>>

\* C16: once update_user_known_name(id, name) has returned, a User with that id
\* exists and has that known name
C16_KnownNameIsUpserted ==
    (PastNameCheck /\ name_updates # <<>>) =>
        \A i \in 1..Len(name_updates) :
            ~name_updates[i].raised =>
                /\ name_updates[i].discord_id \in db.users
                /\ <<name_updates[i].discord_id, name_updates[i].known_name>>
                       \in db.known

\* C20: every delivered message is eventually dequeued and its handling
\* finished, whatever failed while an earlier message was handled
C20_WorkerSurvivesFailures ==
    \A k \in 1..MaxMsgs :
        (delivered >= k) ~> (\E i \in 1..Len(finished) : finished[i] = k)

\* C20, its case: the handling of message 1 got its response and failed at
\* storing the message, and message 2 was handled after it, to the stored bot
\* response
C20_Witness ==
    /\ finished = <<1, 2>>
    /\ \E c \in DOMAIN conversation_contexts :
          \E i \in 1..Len(conversation_contexts[c]) :
              conversation_contexts[c][i].content = UserContent(1)
    /\ MatchByDiscordId(db.msgs, 1) = {}
    /\ \E m \in db.msgs : \E p \in MatchByDiscordId(db.msgs, 2) :
          m.type = "bot" /\ <<m.id, p.id>> \in db.replies

\* the places of the assistant tool-call requests in a message array
ToolRequests(msgs) ==
    {i \in DOMAIN msgs : msgs[i].role = "assistant" /\ "tool_calls" \in DOMAIN msgs[i]}

\* the Executing steps completed so far in the turn: one before each re-entry
\* of get_response, and one before the pending final request
Executed == depth + (IF pc = "final_request" THEN 1 ELSE 0)

\* C22: a chat-completion request sent after an Executing step holds, after
\* the system entry, the window and the user message, one assistant tool-call
\* request for every Executing step completed so far in the turn, each
\* followed by one tool result per requested call
C22_RequestsKeepToolResults ==
    (pc \in {"initial_request", "final_request"} /\ Executed >= 1) =>
        /\ Cardinality(ToolRequests(messages)) = Executed
        /\ \A i \in ToolRequests(messages) :
              /\ i > Len(ctx0) + 2
              /\ \A j \in 1..Len(messages[i].tool_calls) :
                    /\ i + j <= Len(messages)
                    /\ messages[i + j].role = "tool"
                    /\ messages[i + j].tool_call_id = j
                    /\ messages[i + j].name = messages[i].tool_calls[j].name

\* the sends of the response to the message being handled
SendsOfResponse == {i \in 1..Len(sent) : sent[i].id = ResponseId(cur.id)}

\* C26: when the handling of a message that got its response ends, the
\* response has been sent exactly once, also when store_user_message threw
\* (before the send) or store_bot_response threw (after it); the case of a
\* send that itself threw is left out
C26_ResponseSentExactlyOnce ==
    (/\ pc = "task_done"
     /\ response # NoContent
     /\ \/ MatchByDiscordId(db.msgs, cur.id) = {}
        \/ response_msg # NoId) =>
        /\ Cardinality(SendsOfResponse) = 1
        /\ \A i \in SendsOfResponse :
              sent[i].channel = cur.channel /\ sent[i].content = response

\* C27: when get_response returns the fallback string, the window of the
\* turn's conversation holds the entries it held when the turn began (after
\* seeding); and no step of a turn touches the window of another conversation
C27_FallbackTurnAppendsNothing ==
    [][/\ (pc' = "store_user" /\ response' = Fallback) =>
             /\ cur.channel \in DOMAIN conversation_contexts'
             /\ conversation_contexts'[cur.channel] = ctx0
       /\ DOMAIN conversation_contexts' \subseteq
             DOMAIN conversation_contexts \cup {cur.channel}
       /\ \A c \in DOMAIN conversation_contexts \ {cur.channel} :
             /\ c \in DOMAIN conversation_contexts'
             /\ conversation_contexts'[c] = conversation_contexts[c]
    ]_vars

\* C27, its case: a turn on a seeded window has ended with the fallback
\* string, while another conversation has a window with entries
C27_Witness ==
    /\ pc = "store_user"
    /\ response = Fallback
    /\ ctx0 # <<>>
    /\ conversation_contexts[cur.channel] = ctx0
    /\ \E c \in DOMAIN conversation_contexts \ {cur.channel} :
          conversation_contexts[c] # <<>>

(***************************************************************************)
(* The claims checked under SpecChannel.                                   *)
(***************************************************************************)
\* the channel of the inbound message with platform id k, as far as the state
\* tells: the message is the one being handled, or its response was sent
EventChannel(k) ==
    (IF cur.id = k THEN {cur.channel} ELSE {}) \cup
    {sent[i].channel : i \in {j \in 1..Len(sent) : sent[j].id = ResponseId(k)}}

\* the Messages stored for inbound messages
InboundMessages(d) == {m \in d.msgs : m.type = "user"}

\* C21: get_last_interaction_time(channel) returns the latest timestamp of the
\* Messages stored for the inbound messages of that channel, and none when
\* there is no such Message (stated for the states that tell the channel of
\* every stored inbound message)
C21_LastInteractionOfChannel ==
    (/\ ret.op = "get_last_interaction_time"
     /\ \A m \in InboundMessages(db) : EventChannel(m.discord_id) # {}) =>
        LET of == {m \in InboundMessages(db) :
                      ret.args.channel_id \in EventChannel(m.discord_id)}
        IN  ret.value = IF of = {} THEN NoTime
                        ELSE MaxTimestamp({m.timestamp : m \in of})

(***************************************************************************)
(* The claims checked under SpecWindow.                                    *)
(***************************************************************************)
\* C2: every conversation's window holds at most the maximum entry count
C2_WindowWithinCapacity ==
    \A c \in DOMAIN conversation_contexts :
        Len(conversation_contexts[c]) <= MaxContext

\* the window w with its oldest entry gone and e as its newest
Shifted(w, e) == [i \in 1..Len(w) |-> IF i < Len(w) THEN w[i + 1] ELSE e]

\* the step in which get_response appends the user message and the assistant
\* content (lines 100-101)
AppendStep ==
    /\ pc = "initial_request"
    /\ pc' = "store_user"
    /\ response' # Fallback

\* C3: an append to a window that holds exactly the maximum entry count gives
\* that window without its oldest entry, the others in their order, and the
\* new entry last.  The two appends of a turn are one step: from a full window
\* both appends find it full; from a window one short of full the append of
\* the assistant content does
C3_FullWindowEvictsOldest ==
    [][AppendStep =>
        LET w == conversation_contexts[cur.channel]
            after == conversation_contexts'[cur.channel]
            user == Entry("user", UserContent(cur.id))
            assistant == Entry("assistant", response')
        IN  /\ Len(w) = MaxContext => after = Shifted(Shifted(w, user), assistant)
            /\ Len(w) = MaxContext - 1 => after = Shifted(Append(w, user), assistant)
    ]_vars

\* C3, its case: a turn on a window that was full is Done and has appended
C3_Witness ==
    /\ Done
    /\ response # Fallback
    /\ Len(ctx0) = MaxContext
    /\ conversation_contexts[cur.channel] # ctx0

(***************************************************************************)
(* The claims checked under SpecStore and SpecAtomic.                      *)
(***************************************************************************)
\* every Message replies to at most one Message, and to an earlier one
ValidForest(d) ==
    /\ \A m \in d.msgs : Cardinality({e \in d.replies : e[1] = m.id}) <= 1
    /\ \A e \in d.replies : e[2] < e[1]

\* every stored Message is connected, over reply edges in either direction, to
\* a Message user_id sent
AllReachable(d, user_id) ==
    Expand(d, {m.id : m \in {x \in d.msgs : x.sender = user_id}},
           Cardinality(d.msgs)) = {m.id : m \in d.msgs}

\* C4: for N stored Messages (N at most the limit) in a valid forest of reply
\* edges, all reachable from the Messages the seed user sent,
\* rebuild_conversation_chain returns N entries, one for each Message (the
\* store's clock gives each Message a timestamp of its own), in non-decreasing
\* timestamp order
C4_ChainReturnsEveryMessage ==
    (/\ ret.op = "rebuild_conversation_chain"
     /\ ValidForest(db)
     /\ AllReachable(db, ret.args.user_id)
     /\ Cardinality(db.msgs) <= ret.args.limit) =>
        /\ Len(ret.value) = Cardinality(db.msgs)
        /\ {ret.value[i].timestamp : i \in 1..Len(ret.value)} =
               {m.timestamp : m \in db.msgs}
        /\ \A i \in 1..Len(ret.value) : \A j \in i..Len(ret.value) :
               ret.value[i].timestamp <= ret.value[j].timestamp

\* C5: search_memories(query, min_similarity = s, limit = k) returns at most k
\* results, each with a score of at least s, in non-increasing score order, and
\* the empty sequence when no stored Message scores s or more
C5_SearchBoundedFilteredSorted ==
    ret.op = "search_memories" =>
        /\ Len(ret.value) <= ret.args.limit
        /\ \A i \in 1..Len(ret.value) :
               ret.value[i].relevance >= ret.args.min_similarity
        /\ \A i \in 1..Len(ret.value) : \A j \in i..Len(ret.value) :
               ret.value[i].relevance >= ret.value[j].relevance
        /\ (\A m \in db.msgs :
               cosine(ret.args.query, m.content) < ret.args.min_similarity)
           => ret.value = <<>>

\* C5, its case: the store holds a Message that scores 0.8 and one that scores
\* 0.4, and a search with threshold 0.6 and limit 5 has returned the first only
C5_Witness ==
    /\ ret.op = "search_memories"
    /\ ret.args.min_similarity = 6
    /\ ret.args.limit = 5
    /\ {cosine(ret.args.query, m.content) : m \in db.msgs} = {8, 4}
    /\ Cardinality(db.msgs) = 2
    /\ Len(ret.value) = 1
    /\ ret.value[1].relevance = 8
    /\ ret.value[1].content = RefundRules

\* the n largest of a set of timestamps
MostRecent(ts, n) == {t \in ts : Cardinality({u \in ts : u > t}) < n}

\* C11: when the Messages resolved for the seed user (each with a platform id
\* of its own) are more than the limit, rebuild_conversation_chain returns the
\* limit most recent of them, in ascending timestamp order
C11_TruncationKeepsMostRecent ==
    LET resolved == ChainNodes(db, ret.args.user_id)
        value == ret.value
    IN  (/\ ret.op = "rebuild_conversation_chain"
         /\ \A m \in resolved : m.discord_id # NoId
         /\ \A m, n \in resolved : m.discord_id = n.discord_id => m = n
         /\ Cardinality(resolved) > ret.args.limit) =>
            /\ Len(value) = ret.args.limit
            /\ {value[i].timestamp : i \in 1..Len(value)} =
                   MostRecent({m.timestamp : m \in resolved}, ret.args.limit)
            /\ \A i \in 1..Len(value) : \A j \in i..Len(value) :
                   value[i].timestamp <= value[j].timestamp

\* every Message has its SENT edge from a User, every User but the bot's has
\* sent a Message, every ConversationSummary has its HAD_CONVERSATION edge from
\* a User, and every edge joins nodes of the store
WellFormed(d) ==
    /\ \A m \in d.msgs : m.sender \in d.users
    /\ \A u \in d.users \ {BotId} : \E m \in d.msgs : m.sender = u
    /\ \A e \in d.replies : {e[1], e[2]} \subseteq {m.id : m \in d.msgs}
    /\ \A x \in d.summaries : x.user \in d.users
    /\ \A e \in d.part_of : /\ e[1] \in {m.id : m \in d.msgs}
                            /\ e[2] \in {x.id : x \in d.summaries}

\* the Messages of d that carry the platform id did
Carrying(d, did) == {m \in d.msgs : did # NoId /\ m.discord_id = did}

\* C12: a store call that throws leaves the graph as it was, and one that
\* changes the graph leaves all of its nodes and edges in it: the Message with
\* its SENT edge and its REPLIES_TO edge to the Message that carries the reply
\* target (for a bot response, one Message for each that carries it); the
\* ConversationSummary with its HAD_CONVERSATION edge and the PART_OF edge of
\* every stored Message whose platform id the segment carries
C12_StoreWritesAreAtomic ==
    [][/\ ret'.raised => db' = db
       /\ WellFormed(db')
       /\ (db' # db /\ ret'.op = "store_user_message") =>
             \E m \in db'.msgs \ db.msgs :
                 /\ db'.msgs = db.msgs \cup {m}
                 /\ m.sender = ret'.args.user_id
                 /\ \A p \in Carrying(db, ret'.args.reply_to_id) :
                        <<m.id, p.id>> \in db'.replies
       /\ (db' # db /\ ret'.op = "store_bot_response") =>
             /\ \A p \in Carrying(db, ret'.args.reply_to_id) :
                    \E m \in db'.msgs \ db.msgs : <<m.id, p.id>> \in db'.replies
             /\ \A m \in db'.msgs \ db.msgs :
                    /\ m.sender = BotId
                    /\ \E p \in Carrying(db, ret'.args.reply_to_id) :
                           <<m.id, p.id>> \in db'.replies
       /\ (db' # db /\ ret'.op = "store_conversation_summary") =>
             \E x \in db'.summaries \ db.summaries :
                 /\ db'.summaries = db.summaries \cup {x}
                 /\ x.user = ret'.args.user_id
                 /\ \A did \in ret'.args.message_ids : \A m \in Carrying(db', did) :
                        <<m.id, x.id>> \in db'.part_of
    ]_vars

\* C12, its case: a store call threw, after others wrote a Message with a
\* REPLIES_TO edge and a ConversationSummary with a PART_OF edge
C12_Witness ==
    /\ ret.raised
    /\ db.replies # {}
    /\ db.part_of # {}

\* C13: every Message has at most one outgoing REPLIES_TO edge
C13_AtMostOneReplyEdge ==
    \A m \in db.msgs : Cardinality({e \in db.replies : e[1] = m.id}) <= 1

\* C19: of two results of search_memories with the same relevance, the one
\* with the more recent timestamp comes first
C19_EqualScoresMostRecentFirst ==
    ret.op = "search_memories" =>
        \A i \in 1..Len(ret.value) : \A j \in i..Len(ret.value) :
            ret.value[i].relevance = ret.value[j].relevance =>
                ret.value[i].timestamp >= ret.value[j].timestamp

(***************************************************************************)
(* The claims checked under SpecAnalyzer.                                  *)
(***************************************************************************)
\* the segment covers the stored Message m: one of the messages given to
\* detect_topic_shift carries m's platform id and is, normalized, one of the
\* segment's messages
Covers(segment, inputs, m) ==
    \E j \in DOMAIN inputs : \E i \in DOMAIN segment.messages :
        /\ Get(inputs[j], "discord_id", NoId) # NoId
        /\ Get(inputs[j], "discord_id", NoId) = m.discord_id
        /\ Get(inputs[j], "content", <<>>) = segment.messages[i].content
        /\ Get(inputs[j], "timestamp", NoTime) = segment.messages[i].timestamp

\* C17: store_conversation_summary(user, segment), for a segment that
\* detect_topic_shift returned and a User of the store, has created a
\* ConversationSummary of that User with a PART_OF edge from every stored
\* Message the segment covers
C17_SummaryLinksCoveredMessages ==
    (/\ ret.op = "store_conversation_summary"
     /\ ~ret.raised
     /\ ret.args.user_id \in db.users) =>
        \E x \in db.summaries :
            /\ x.user = ret.args.user_id
            /\ x.topic = ret.args.segment.topic
            /\ \A m \in db.msgs :
                   Covers(ret.args.segment, ret.inputs, m) =>
                       <<m.id, x.id>> \in db.part_of

\* C18: summarize_segment returns the "{role}: {content}" texts of the
\* segment's messages, joined by spaces, when that text is shorter than 100
\* characters; when it is not and the summarization capability fails, it
\* returns the text up to its first '.', and a period, which is not empty; the
\* segment's summary is what it returns
C18_SummaryOfShortOrFailed ==
    ret.op = "summarize_segment" =>
        LET text == SegmentText(ret.args.segment)
        IN  /\ Len(text) < SummaryMinLength => ret.value = text
            /\ (Len(text) >= SummaryMinLength /\ ~ret.args.works) =>
                  /\ ret.value # <<>>
                  /\ \E k \in 1..(Len(text) + 1) :
                        /\ k <= Len(text) => text[k] = "."
                        /\ \A j \in 1..(k - 1) : text[j] # "."
                        /\ ret.value = SubSeq(text, 1, k - 1) \o <<".">>
            /\ ret.segment.summary = ret.value

\* C18, its case: the capability failed on a text of exactly 100 characters
\* with a period in it
C18_Witness ==
    /\ ret.op = "summarize_segment"
    /\ ~ret.args.works
    /\ Len(SegmentText(ret.args.segment)) = SummaryMinLength
    /\ \E j \in 1..SummaryMinLength : SegmentText(ret.args.segment)[j] = "."

(***************************************************************************)
(* More claims checked under SpecWindow.                                   *)
(***************************************************************************)
\* after is before with its k oldest entries gone and n entries appended
EvictedAndAppended(before, after, k, n) ==
    /\ Len(after) = Len(before) - k + n
    /\ \A i \in 1..(Len(before) - k) : after[i] = before[i + k]

\* C23: a window that does not exist comes into being on entering get_response
\* for its conversation id (not on a re-entry), as the resolver's output for
\* the caller's user, oldest first; a turn that gets past the resolver leaves
\* its window in existence; and a window that exists stays, and changes only
\* by appends at its end, each evicting at most the oldest entry
C23_WindowSeededOnce ==
    [][\A c \in Channels :
          /\ (c \notin DOMAIN conversation_contexts
               /\ c \in DOMAIN conversation_contexts') =>
                 /\ pc = "get_response"
                 /\ depth = 0
                 /\ c = cur.channel
                 /\ \E history \in rebuild_conversation_chain(db, cur.author,
                                                              ChainLimit) :
                       /\ conversation_contexts'[c] = SeedWindow(history)
                       /\ \A i \in 1..Len(history) : \A j \in i..Len(history) :
                              history[i].timestamp <= history[j].timestamp
          /\ (pc = "get_response" /\ pc' = "initial_request" /\ c = cur.channel) =>
                 c \in DOMAIN conversation_contexts'
          /\ c \in DOMAIN conversation_contexts =>
                 /\ c \in DOMAIN conversation_contexts'
                 /\ \E n \in 0..2 : \E k \in 0..n :
                        EvictedAndAppended(conversation_contexts[c],
                                           conversation_contexts'[c], k, n)
    ]_vars

\* C23, its case: a re-entry of get_response in the second turn on a window
\* that holds entries of its seed and the entries the first turn appended
C23_Witness ==
    /\ delivered = 2
    /\ pc = "initial_request"
    /\ depth = 1
    /\ cur.channel \in DOMAIN conversation_contexts
    /\ LET w == conversation_contexts[cur.channel]
       IN  /\ \E i \in 1..Len(w) : w[i].content = HistContent(2)
           /\ \E i \in 1..Len(w) : w[i].content = UserContent(1)

(***************************************************************************)
(* More claims checked under SpecAnalyzer.                                 *)
(***************************************************************************)
RECURSIVE StartOf(_, _)
\* the place, among the normalized messages, of the first message of
\* segment k
StartOf(segments, k) ==
    IF k = 1 THEN 1 ELSE StartOf(segments, k - 1) + Len(segments[k - 1].messages)

\* the places where a segment was closed and a new one started
Boundaries(segments) == {StartOf(segments, k) : k \in 2..Len(segments)}

\* the running topic once message i is placed: the topic of the message at
\* the last boundary up to i, or of the first message
RunningTopic(segments, dist, i) ==
    LET starts == {1} \cup {b \in Boundaries(segments) : b <= i}
    IN  dist[CHOOSE b \in starts : \A c \in starts : c <= b].topic

\* C24: detect_topic_shift closes the current segment and starts a new one
\* at message i exactly when the most likely topic of message i differs from
\* the running topic and its weight is strictly greater than the threshold;
\* otherwise the running topic stays; every segment carries the running topic
\* of its messages
C24_ShiftOnDifferentTopicAboveThreshold ==
    (ret.op = "detect_topic_shift" /\ ~ret.raised) =>
        LET dist == ret.args.dist
            segments == ret.value
        IN  /\ \A i \in 2..Len(dist) :
                  i \in Boundaries(segments) <=>
                      /\ dist[i].topic # RunningTopic(segments, dist, i - 1)
                      /\ dist[i].weight > Threshold
            /\ \A k \in 1..Len(segments) :
                  segments[k].topic =
                      TopicKeywords(RunningTopic(segments, dist,
                                                 StartOf(segments, k)))

\* C24, its case: of three messages the second has another topic than the
\* first at a weight equal to the threshold, and stays in the first segment;
\* the third has the topic of the second at a weight above it, and starts
\* the second segment
C24_Witness ==
    /\ ret.op = "detect_topic_shift"
    /\ Len(ret.args.dist) = 3
    /\ ret.args.dist[2].topic # ret.args.dist[1].topic
    /\ ret.args.dist[2].weight = Threshold
    /\ ret.args.dist[3] = [topic |-> ret.args.dist[2].topic, weight |-> Threshold + 1]
    /\ Len(ret.value) = 2
    /\ Len(ret.value[1].messages) = 2

RECURSIVE Concat(_, _)
\* the message lists of the segments from segment k on, one after the other
Concat(segments, k) ==
    IF k > Len(segments) THEN <<>>
    ELSE segments[k].messages \o Concat(segments, k + 1)

\* the input messages with a non-empty content, in input order
ValidMessages(inputs) ==
    SelectSeq(inputs, LAMBDA msg : Get(msg, "content", <<>>) # <<>>)

\* C28: detect_topic_shift returns segments that partition the valid input
\* messages: every segment is non-empty, the segments' messages in order are
\* the valid messages in input order, every segment's start_time and end_time
\* are the timestamps of its first and last message, no valid message gives
\* no segment and one valid message gives exactly one segment
C28_SegmentsPartitionValidMessages ==
    ret.op = "detect_topic_shift" =>
        LET segments == ret.value
            all == Concat(segments, 1)
            valid == ValidMessages(ret.inputs)
        IN  /\ ~ret.raised
            /\ \A k \in 1..Len(segments) :
                  /\ segments[k].messages # <<>>
                  /\ segments[k].start_time = segments[k].messages[1].timestamp
                  /\ segments[k].end_time =
                        segments[k].messages[Len(segments[k].messages)].timestamp
            /\ Len(all) = Len(valid)
            /\ \A i \in 1..Len(all) :
                  /\ all[i].content = valid[i].content
                  /\ all[i].role = valid[i].role
                  /\ "timestamp" \in DOMAIN valid[i] =>
                        all[i].timestamp = valid[i].timestamp
            /\ Len(valid) = 0 => segments = <<>>
            /\ Len(valid) = 1 => Len(segments) = 1

(***************************************************************************)
(* The claim checked under SpecSummarizer.                                 *)
(***************************************************************************)
\* C25: for a text of at least 100 characters and n words, the capability is
\* called with max_length n div 2 kept within 30..130 and min_length the
\* smaller of 30 and max_length - 20; so 30 <= max_length <= 130,
\* 10 <= min_length <= 30 and min_length < max_length
C25_SummaryLengthsClamped ==
    ret.op = "summarizer" =>
        LET n == ret.args.input_length
            half == n \div 2
            max == ret.value.max_length
            min == ret.value.min_length
        IN  /\ ret.args.length >= SummaryMinLength
            /\ max = IF half < 30 THEN 30 ELSE IF half > 130 THEN 130 ELSE half
            /\ min = IF max - 20 < 30 THEN max - 20 ELSE 30
            /\ 30 <= max /\ max <= 130
            /\ 10 <= min /\ min <= 30
            /\ min < max

\* C25, its case: a text of more than 260 words, whose max_length is held at
\* 130
C25_Witness ==
    /\ ret.op = "summarizer"
    /\ ret.args.input_length > 260
    /\ ret.value = [max_length |-> 130, min_length |-> 30]

====
